---------------------------- MODULE Spec2Model ----------------------------
(***************************************************************************)
(* AI-News-Summarizer: the three summary endpoints of app/routes.py, the   *)
(* response cache in front of them (config/cache_config.py and the         *)
(* @cache.cached decorators), and the two functions of app/news_service.py *)
(* (get_ai_news, summarize_news).                                          *)
(*                                                                         *)
(* Text is modelled as a sequence of one-character strings, so that        *)
(* concatenation and str.strip() are computed, not assumed.  A Python      *)
(* call either returns a value or raises: it is a record                   *)
(* [kind |-> "return", value |-> v] or [kind |-> "raise", type |-> t,      *)
(* msg |-> m].                                                             *)
(***************************************************************************)
EXTENDS Integers, Sequences, FiniteSets, TLC

VARIABLES
    pc,          \* position of the request being served ("idle" between requests)
    now,         \* wall clock, in seconds
    cache,       \* SimpleCache contents: cache key -> entry or NoEntry
    req,         \* the request being served: [endpoint, body], or NoRequest
    served,      \* TRUE when the response came from the cache
    language,    \* handler local `language`
    date,        \* handler local `today` / `last_week` / `last_month` (a day number)
    upstream,    \* the news provider's answer to this invocation's GET, or NoUpstream
    ai_news,     \* result of get_ai_news (a call outcome), or NotCalled
    delivered,   \* fragments the inference provider has delivered so far
    summary,     \* summarize_news' accumulator, then its stripped return value
    failure,     \* the exception raised inside the handler's try block, or NoFailure
    response,    \* the response given to the caller, or NoResponse
    calls,       \* collaborators called during this invocation
    nreq         \* requests received so far

vars == <<pc, now, cache, req, served, language, date, upstream, ai_news,
          delivered, summary, failure, response, calls, nreq>>

---------------------------------------------------------------------------
(* Bounds of the model. *)

MaxArticles == 12
MaxFragments == 2
MaxFragLen == 2
MaxRequests == 2
MaxTicks == 4
TickSeconds == 100

(* Program constants. *)

KeepLast == 10
CacheTimeout == 300
WeekDays == 7
MonthDays == 30
DaySeconds == 24 * 60 * 60
HttpOk == 200

---------------------------------------------------------------------------
(* Values. *)

None == "<null>"
Absent == "<absent>"
NoRequest == [endpoint |-> "", body |-> [kind |-> "none", language |-> ""]]
NotCalled == [kind |-> "not_called", none |-> FALSE, value |-> <<>>, type |-> "", msg |-> ""]
NoFailure == [stage |-> "none", type |-> "", msg |-> ""]
NoResponse == [status |-> 0, mimetype |-> "", error |-> "", detail |-> "", text |-> <<>>]
NoCalls == [news |-> 0, summarizer |-> 0, translator |-> 0, translate_args |-> <<>>]

(* The outcome of a Python call: a returned value (None apart) or an exception. *)
Return(v) == [kind |-> "return", none |-> FALSE, value |-> v, type |-> "", msg |-> ""]
ReturnNone == [kind |-> "return", none |-> TRUE, value |-> <<>>, type |-> "", msg |-> ""]
Raise(t, m) == [kind |-> "raise", none |-> FALSE, value |-> <<>>, type |-> t, msg |-> m]

Min(a, b) == IF a <= b THEN a ELSE b

SeqsUpTo(S, n) == UNION {[1..k -> S] : k \in 0..n}

---------------------------------------------------------------------------
(* Text. *)

Chars == {"a", "b", " "}
Whitespace == {" ", "\t", "\n"}

RECURSIVE Flatten(_)
Flatten(ss) == IF ss = <<>> THEN <<>> ELSE Head(ss) \o Flatten(Tail(ss))

RECURSIVE lstrip(_)
lstrip(s) == IF s # <<>> /\ Head(s) \in Whitespace THEN lstrip(Tail(s)) ELSE s

RECURSIVE rstrip(_)
rstrip(s) ==
    IF s # <<>> /\ s[Len(s)] \in Whitespace
    THEN rstrip(SubSeq(s, 1, Len(s) - 1))
    ELSE s

(* Variant: only the leading whitespace removed (str.lstrip). *)
strip_left_only(s) == lstrip(s)

strip(s) == rstrip(lstrip(s))

---------------------------------------------------------------------------
(* The news provider's answer to one GET, and get_ai_news. *)

(* The i-th article of the upstream page.  A field is a string, None (JSON *)
(* null) or Absent (the key is missing from the article object).           *)
Article(i) ==
    [title |-> "t" \o ToString(i), description |-> "d" \o ToString(i)]

Defects == {"title_null", "title_absent", "description_null", "description_absent"}

Defective(a, defect) ==
    CASE defect = "title_null" -> [a EXCEPT !.title = None]
      [] defect = "title_absent" -> [a EXCEPT !.title = Absent]
      [] defect = "description_null" -> [a EXCEPT !.description = None]
      [] defect = "description_absent" -> [a EXCEPT !.description = Absent]
      [] OTHER -> a

(* A page of n articles in upstream order, the p-th one defective (p = 0: none). *)
Page(n, p, defect) ==
    [i \in 1..n |-> IF i = p THEN Defective(Article(i), defect) ELSE Article(i)]

OkResponse(json) == [transport |-> "ok", status_code |-> HttpOk, json |-> json]

JsonArticles(arts) == [valid |-> TRUE, has_articles |-> TRUE, articles_null |-> FALSE, articles |-> arts]
JsonNoArticlesField == [valid |-> TRUE, has_articles |-> FALSE, articles_null |-> FALSE, articles |-> <<>>]
JsonArticlesNull == [valid |-> TRUE, has_articles |-> TRUE, articles_null |-> TRUE, articles |-> <<>>]
JsonInvalid == [valid |-> FALSE, has_articles |-> FALSE, articles_null |-> FALSE, articles |-> <<>>]

ErrorStatuses == {401, 429, 500}

StatusResponse(code) == [transport |-> "ok", status_code |-> code, json |-> JsonInvalid]
TransportFailure(t) == [transport |-> t, status_code |-> 0, json |-> JsonInvalid]

(* Every answer of the provider within the bounds. *)
AllUpstream ==
    {OkResponse(JsonArticles(Page(n, 0, "none"))) : n \in 0..MaxArticles}
    \cup {OkResponse(JsonArticles(Page(n, p, d))) : n \in 1..MaxArticles, p \in 1..MaxArticles, d \in Defects}
    \cup {OkResponse(JsonNoArticlesField), OkResponse(JsonArticlesNull), OkResponse(JsonInvalid)}
    \cup {StatusResponse(c) : c \in ErrorStatuses}
    \cup {TransportFailure(t) : t \in {"ConnectionError", "Timeout"}}

(* The answers the service specification draws from: one of each kind. *)
ServiceUpstream ==
    {OkResponse(JsonArticles(Page(n, 0, "none"))) : n \in {0, 1, KeepLast + 1}}
    \cup {OkResponse(JsonArticles(Page(1, 1, d))) : d \in {"title_null", "title_absent"}}
    \cup {OkResponse(JsonNoArticlesField), OkResponse(JsonInvalid)}
    \cup {StatusResponse(500), TransportFailure("ConnectionError")}

(* str() of a field inside the f-string: None prints as "None". *)
Str(v) == IF v = None THEN "None" ELSE v

(* f"{article['title']}: {article['description']}" *)
Render(a) == Str(a.title) \o ": " \o Str(a.description)

(* articles[-10:] *)
LastArticles(articles) ==
    SubSeq(articles, IF Len(articles) > KeepLast THEN Len(articles) - KeepLast + 1 ELSE 1,
           Len(articles))

(* The key whose lookup raises KeyError in article a, or "" when both are there. *)
MissingKey(a) ==
    IF a.title = Absent THEN "title"
    ELSE IF a.description = Absent THEN "description"
    ELSE ""

(* Lines 31-33: the body of a 200 answer decoded, sliced and rendered. *)
RenderArticles(up) ==
    IF ~up.json.valid THEN Raise("JSONDecodeError", "Expecting value")
    ELSE IF up.json.articles_null
    THEN Raise("TypeError", "'NoneType' object is not subscriptable")
    ELSE LET articles == IF up.json.has_articles THEN up.json.articles ELSE <<>>
             kept == LastArticles(articles)
             bad == {i \in 1..Len(kept) : MissingKey(kept[i]) # ""}
         IN  IF bad # {}
             THEN Raise("KeyError", MissingKey(kept[CHOOSE i \in bad : \A j \in bad : i <= j]))
             ELSE Return([i \in 1..Len(kept) |-> Render(kept[i])])

(* Variant: a status other than 200 raises, as response.raise_for_status() would. *)
get_ai_news_raise_for_status(up) ==
    IF up.transport # "ok" THEN Raise(up.transport, "newsapi.org")
    ELSE IF up.status_code = HttpOk THEN RenderArticles(up)
    ELSE Raise("HTTPError", ToString(up.status_code))

(* get_ai_news: the outcome of the call for the provider's answer up. *)
get_ai_news(up) ==
    IF up.transport # "ok" THEN Raise(up.transport, "newsapi.org")
    ELSE IF up.status_code = HttpOk THEN RenderArticles(up)
    ELSE ReturnNone

---------------------------------------------------------------------------
(* The inference provider's stream, and summarize_news. *)

(* Every fragment within the bounds: a delta's text content. *)
AllFragments == SeqsUpTo(Chars, MaxFragLen)

(* The fragments the service specification draws from. *)
ServiceFragments == {<<"a">>, <<" ">>}

InferenceFailures == {"ConnectionError"}

---------------------------------------------------------------------------
(* The translator (languages/languages_operations.py, not part of the      *)
(* sources at hand): modelled from its contract.  The default language is  *)
(* returned unchanged without calling the translation provider; otherwise  *)
(* the provider either answers or fails with an exception of its own.      *)

DefaultLanguage == "en"

TranslatorBehaviours == {"ok", "KeyError", "ValueError", "TranslationError"}

(* The provider's translation of text into lang: tagged, so that it differs *)
(* from the text it translates.                                             *)
Translated(text, lang) == <<"[" \o lang \o "]">> \o text

translate(text, lang, behaviour) ==
    IF lang = DefaultLanguage THEN Return(text)
    ELSE IF behaviour = "ok" THEN Return(Translated(text, lang))
    ELSE Raise(behaviour, "translation to " \o lang \o " failed")

---------------------------------------------------------------------------
(* The request, and what the handlers read from it. *)

Endpoints == {"daily_news_summary", "weekly_news_summary", "monthly_news_summary"}

(* The body of a POST as Flask sees it: no JSON body at all, a JSON body   *)
(* that does not parse, JSON that is not an object, or an object whose     *)
(* "language" key is Absent, null (None) or a string.                      *)
RequestBodies ==
    {[kind |-> k, language |-> Absent] : k \in {"not_json", "malformed", "non_object"}}
    \cup {[kind |-> "object", language |-> l] : l \in {Absent, None, "en", "fr"}}

(* request.json *)
request_json(body) ==
    CASE body.kind = "not_json" -> Raise("UnsupportedMediaType", "415 Unsupported Media Type")
      [] body.kind = "malformed" -> Raise("BadRequest", "400 Bad Request")
      [] OTHER -> Return(body)

(* Variant: the "language" field is not read. *)
language_ignored(body) ==
    LET data == request_json(body)
    IN  IF data.kind = "raise" THEN data
        ELSE IF data.value.kind # "object"
        THEN Raise("AttributeError", "object has no attribute 'get'")
        ELSE Return(DefaultLanguage)

(* data = request.json; language = data.get('language', 'en') *)
RequestLanguage(body) ==
    LET data == request_json(body)
    IN  IF data.kind = "raise" THEN data
        ELSE IF data.value.kind # "object"
        THEN Raise("AttributeError", "object has no attribute 'get'")
        ELSE Return(IF data.value.language = Absent THEN DefaultLanguage
                    ELSE data.value.language)

LookbackDays(endpoint) ==
    CASE endpoint = "daily_news_summary" -> 0
      [] endpoint = "weekly_news_summary" -> WeekDays
      [] endpoint = "monthly_news_summary" -> MonthDays

(* (datetime.now() - timedelta(days=d)).strftime("%Y-%m-%d"): the day, the *)
(* time of day dropped.  A date is its day number.                         *)
StartDate(t, endpoint) == (t \div DaySeconds) - LookbackDays(endpoint)

---------------------------------------------------------------------------
(* Responses. *)

JsonError(status, error, detail) ==
    [status |-> status, mimetype |-> "application/json", error |-> error,
     detail |-> detail, text |-> <<>>]

NoNewsResponse(endpoint) ==
    JsonError(400,
              IF endpoint = "daily_news_summary"
              THEN "No AI news articles available today."
              ELSE "No AI news articles available to summarize.", "")

SummaryEmptyResponse(endpoint) ==
    JsonError(400,
              IF endpoint = "daily_news_summary"
              THEN "Failed to generate a summary from today's news articles."
              ELSE "Failed to generate a summary from the news articles.", "")

(* make_response(translated_summary, 200) with mimetype text/plain *)
TextResponse(text) ==
    [status |-> HttpOk, mimetype |-> "text/plain", error |-> "", detail |-> "", text |-> text]

(* What the caller gets when an exception leaves the view function. *)
UnhandledResponse == JsonError(500, "<unhandled exception>", "")

IsValueError(type) == type \in {"ValueError", "JSONDecodeError"}

(* The three except clauses of a handler. *)
HandleException(exc) ==
    IF exc.type = "KeyError"
    THEN JsonError(400, "Bad Request: Missing or invalid key - ", exc.msg)
    ELSE IF IsValueError(exc.type)
    THEN JsonError(400, "Bad Request: Invalid data format - ", exc.msg)
    ELSE JsonError(500, "Internal Server Error: ", exc.msg)

(* Variant: the emptiness test of the batch left out. *)
NewsNeverEmpty(news) == FALSE

(* Variant: `if ai_news is None`, which lets an empty list through. *)
NewsIsNone(news) == news.none

(* not ai_news *)
NewsIsEmpty(news) == news.none \/ news.value = <<>>

(* Variant: the emptiness test of the summary left out. *)
SummaryNeverEmpty(s) == FALSE

(* not summary *)
SummaryIsEmpty(s) == s = <<>>

(* Variant: a failed translation falls back to the untranslated summary. *)
TranslateFailureFallsBack(exc, text) == TextResponse(text)

(* Variant: translate() called outside the try block. *)
TranslateFailurePropagates(exc, text) == UnhandledResponse

(* translate() is called inside the try block: its exception reaches the   *)
(* except clauses, and the summary (text) is dropped.                      *)
TranslateFailureResponse(exc, text) == HandleException(exc)

---------------------------------------------------------------------------
(* The response cache: Flask-Caching's SimpleCache behind @cache.cached.   *)

NoEntry ==
    [present |-> FALSE, value |-> NoResponse, expires |-> 0,
     for_endpoint |-> "", for_body |-> NoRequest.body, for_date |-> 0]

(* @cache.cached(timeout=300, key_prefix="daily_news_summary"): a          *)
(* key_prefix without "%s" is the whole key.                               *)
CacheKey(request) == request.endpoint

CacheKeys == Endpoints

(* SimpleCache.get: an entry counts while its expiry lies in the future. *)
CacheGet(key, t) ==
    IF cache[key].present /\ cache[key].expires > t THEN cache[key] ELSE NoEntry

---------------------------------------------------------------------------
(* The state between requests, and the actions. *)

NoUpstream == TransportFailure("")

StartTime == DaySeconds * (MonthDays + 1) - 2 * TickSeconds

locals == <<language, date, upstream, ai_news, delivered, summary, failure, calls>>

Idle ==
    /\ pc = "idle"
    /\ req = NoRequest
    /\ served = FALSE
    /\ language = ""
    /\ date = 0
    /\ upstream = NoUpstream
    /\ ai_news = NotCalled
    /\ delivered = <<>>
    /\ summary = <<>>
    /\ failure = NoFailure
    /\ response = NoResponse
    /\ calls = NoCalls

Init ==
    /\ Idle
    /\ now = StartTime
    /\ cache = [k \in CacheKeys |-> NoEntry]
    /\ nreq = 0

(* Time passes between two requests. *)
Tick ==
    /\ pc = "idle"
    /\ now < StartTime + MaxTicks * TickSeconds
    /\ now' = now + TickSeconds
    /\ UNCHANGED <<pc, cache, req, served, response, nreq>>
    /\ UNCHANGED locals

(* A POST to one of the three summary routes arrives. *)
ReceiveRequest(endpoint, body) ==
    /\ pc = "idle"
    /\ nreq < MaxRequests
    /\ req' = [endpoint |-> endpoint, body |-> body]
    /\ nreq' = nreq + 1
    /\ pc' = "lookup"
    /\ UNCHANGED <<now, cache, served, response>>
    /\ UNCHANGED locals

(* cache.cached, before the view function: a live entry under the route's  *)
(* key is the response, and the view function is not called.               *)
CacheLookup ==
    /\ pc = "lookup"
    /\ LET hit == CacheGet(CacheKey(req), now)
       IN  IF hit.present
           THEN /\ response' = hit.value
                /\ served' = TRUE
                /\ pc' = "done"
           ELSE /\ pc' = "parse"
                /\ UNCHANGED <<response, served>>
    /\ UNCHANGED <<now, cache, req, nreq>>
    /\ UNCHANGED locals

(* The head of the try block: the language, then the window's start date. *)
ParseRequest ==
    /\ pc = "parse"
    /\ LET lang == RequestLanguage(req.body)
       IN  IF lang.kind = "raise"
           THEN /\ failure' = [stage |-> "parse", type |-> lang.type, msg |-> lang.msg]
                /\ response' = HandleException(lang)
                /\ pc' = "store"
                /\ UNCHANGED <<language, date>>
           ELSE /\ language' = lang.value
                /\ date' = StartDate(now, req.endpoint)
                /\ pc' = "fetch"
                /\ UNCHANGED <<failure, response>>
    /\ UNCHANGED <<now, cache, req, served, upstream, ai_news, delivered, summary, calls, nreq>>

(* ai_news = get_ai_news(date=...), the provider answering up. *)
FetchNews(up) ==
    /\ pc = "fetch"
    /\ upstream' = up
    /\ ai_news' = get_ai_news(up)
    /\ calls' = [calls EXCEPT !.news = @ + 1]
    /\ pc' = "check_news"
    /\ UNCHANGED <<now, cache, req, served, language, date, delivered, summary,
                   failure, response, nreq>>

(* if not ai_news: ... return 400; otherwise summarize_news is entered. *)
CheckNews ==
    /\ pc = "check_news"
    /\ IF ai_news.kind = "raise"
       THEN /\ failure' = [stage |-> "fetch", type |-> ai_news.type, msg |-> ai_news.msg]
            /\ response' = HandleException(ai_news)
            /\ pc' = "store"
            /\ UNCHANGED calls
       ELSE IF NewsIsEmpty(ai_news)
       THEN /\ response' = NoNewsResponse(req.endpoint)
            /\ pc' = "store"
            /\ UNCHANGED <<failure, calls>>
       ELSE /\ calls' = [calls EXCEPT !.summarizer = @ + 1]
            /\ pc' = "summarize"
            /\ UNCHANGED <<failure, response>>
    /\ UNCHANGED <<now, cache, req, served, language, date, upstream, ai_news,
                   delivered, summary, nreq>>

(* One turn of summarize_news' loop: summary += message.choices[0].delta.content *)
SummarizeFragment(fragment) ==
    /\ pc = "summarize"
    /\ Len(delivered) < MaxFragments
    /\ delivered' = Append(delivered, fragment)
    /\ summary' = summary \o fragment
    /\ UNCHANGED <<pc, now, cache, req, served, language, date, upstream, ai_news,
                   failure, response, calls, nreq>>

(* The stream is exhausted: return summary.strip() *)
SummarizeReturn ==
    /\ pc = "summarize"
    /\ summary' = strip(summary)
    /\ pc' = "check_summary"
    /\ UNCHANGED <<now, cache, req, served, language, date, upstream, ai_news,
                   delivered, failure, response, calls, nreq>>

(* The inference call fails, at its start or in mid-stream: the exception  *)
(* leaves summarize_news and reaches the handler's except clauses.         *)
SummarizeFail(type) ==
    /\ pc = "summarize"
    /\ failure' = [stage |-> "summarize", type |-> type, msg |-> "inference"]
    /\ response' = HandleException(Raise(type, "inference"))
    /\ delivered' = <<>>
    /\ summary' = <<>>
    /\ pc' = "store"
    /\ UNCHANGED <<now, cache, req, served, language, date, upstream, ai_news,
                   calls, nreq>>

(* if not summary: ... return 400; otherwise translate is reached. *)
CheckSummary ==
    /\ pc = "check_summary"
    /\ delivered' = <<>>
    /\ IF SummaryIsEmpty(summary)
       THEN /\ response' = SummaryEmptyResponse(req.endpoint)
            /\ pc' = "store"
       ELSE /\ pc' = "translate"
            /\ UNCHANGED response
    /\ UNCHANGED <<now, cache, req, served, language, date, upstream, ai_news,
                   summary, failure, calls, nreq>>

(* translated_summary = translate(summary, language), and the response. *)
Translate(behaviour) ==
    /\ pc = "translate"
    /\ calls' = [calls EXCEPT !.translator = @ + 1,
                              !.translate_args = <<summary, language>>]
    /\ LET out == translate(summary, language, behaviour)
       IN  IF out.kind = "raise"
           THEN /\ failure' = [stage |-> "translate", type |-> out.type, msg |-> out.msg]
                /\ response' = TranslateFailureResponse(out, summary)
           ELSE /\ response' = TextResponse(out.value)
                /\ UNCHANGED failure
    /\ pc' = "store"
    /\ UNCHANGED <<now, cache, req, served, language, date, upstream, ai_news,
                   delivered, summary, nreq>>

(* cache.cached, after the view function returned: its return value is     *)
(* stored under the route's key for the timeout, whatever its status.      *)
CacheStore ==
    /\ pc = "store"
    /\ cache' = [cache EXCEPT ![CacheKey(req)] =
                    [present |-> TRUE, value |-> response, expires |-> now + CacheTimeout,
                     for_endpoint |-> req.endpoint, for_body |-> req.body,
                     for_date |-> StartDate(now, req.endpoint)]]
    /\ pc' = "done"
    /\ UNCHANGED <<now, req, served, response, nreq>>
    /\ UNCHANGED locals

(* The response has gone to the caller; the request's locals are dropped. *)
Finish ==
    /\ pc = "done"
    /\ pc' = "idle"
    /\ req' = NoRequest
    /\ served' = FALSE
    /\ language' = ""
    /\ date' = 0
    /\ upstream' = NoUpstream
    /\ ai_news' = NotCalled
    /\ delivered' = <<>>
    /\ summary' = <<>>
    /\ failure' = NoFailure
    /\ response' = NoResponse
    /\ calls' = NoCalls
    /\ UNCHANGED <<now, cache, nreq>>

Next ==
    \/ Tick
    \/ \E e \in Endpoints, b \in RequestBodies : ReceiveRequest(e, b)
    \/ CacheLookup
    \/ ParseRequest
    \/ \E up \in ServiceUpstream : FetchNews(up)
    \/ CheckNews
    \/ \E f \in ServiceFragments : SummarizeFragment(f)
    \/ \E t \in InferenceFailures : SummarizeFail(t)
    \/ SummarizeReturn
    \/ CheckSummary
    \/ \E b \in TranslatorBehaviours : Translate(b)
    \/ CacheStore
    \/ Finish

Spec == Init /\ [][Next]_vars

---------------------------------------------------------------------------
(* One invocation of a view function, the cache decorator left aside: any  *)
(* route, any body, at any time of the clock, from the head of the try     *)
(* block to the return.                                                    *)

InitPipeline ==
    /\ pc = "parse"
    /\ req \in [endpoint : Endpoints, body : RequestBodies]
    /\ now \in {StartTime + k * TickSeconds : k \in 0..MaxTicks}
    /\ cache = [k \in CacheKeys |-> NoEntry]
    /\ nreq = 1
    /\ served = FALSE
    /\ language = ""
    /\ date = 0
    /\ upstream = NoUpstream
    /\ ai_news = NotCalled
    /\ delivered = <<>>
    /\ summary = <<>>
    /\ failure = NoFailure
    /\ response = NoResponse
    /\ calls = NoCalls

NextPipeline ==
    \/ ParseRequest
    \/ \E up \in ServiceUpstream : FetchNews(up)
    \/ CheckNews
    \/ \E f \in ServiceFragments : SummarizeFragment(f)
    \/ \E t \in InferenceFailures : SummarizeFail(t)
    \/ SummarizeReturn
    \/ CheckSummary
    \/ \E b \in TranslatorBehaviours : Translate(b)

SpecPipeline == InitPipeline /\ [][NextPipeline]_vars

(* get_ai_news alone, applied to every answer of the provider within the bounds. *)

InitFetch ==
    /\ pc = "fetch"
    /\ req = [endpoint |-> "daily_news_summary",
              body |-> [kind |-> "object", language |-> Absent]]
    /\ now = StartTime
    /\ cache = [k \in CacheKeys |-> NoEntry]
    /\ nreq = 1
    /\ served = FALSE
    /\ language = DefaultLanguage
    /\ date = StartDate(StartTime, "daily_news_summary")
    /\ upstream = NoUpstream
    /\ ai_news = NotCalled
    /\ delivered = <<>>
    /\ summary = <<>>
    /\ failure = NoFailure
    /\ response = NoResponse
    /\ calls = NoCalls

NextFetch == \E up \in AllUpstream : FetchNews(up)

SpecFetch == InitFetch /\ [][NextFetch]_vars

(* summarize_news alone, fed every stream of fragments within the bounds. *)

InitSummarize ==
    /\ pc = "summarize"
    /\ req = [endpoint |-> "daily_news_summary",
              body |-> [kind |-> "object", language |-> Absent]]
    /\ now = StartTime
    /\ cache = [k \in CacheKeys |-> NoEntry]
    /\ nreq = 1
    /\ served = FALSE
    /\ language = DefaultLanguage
    /\ date = StartDate(StartTime, "daily_news_summary")
    /\ upstream = OkResponse(JsonArticles(Page(1, 0, "none")))
    /\ ai_news = get_ai_news(OkResponse(JsonArticles(Page(1, 0, "none"))))
    /\ delivered = <<>>
    /\ summary = <<>>
    /\ failure = NoFailure
    /\ response = NoResponse
    /\ calls = [NoCalls EXCEPT !.news = 1, !.summarizer = 1]

NextSummarize ==
    \/ \E f \in AllFragments : SummarizeFragment(f)
    \/ SummarizeReturn

SpecSummarize == InitSummarize /\ [][NextSummarize]_vars

---------------------------------------------------------------------------
(* Properties. *)

Returned == pc \in {"store", "done"} /\ ~served

(* The fetch step returned None or an empty list. *)
FetchEmpty == ai_news.kind = "return" /\ (ai_news.none \/ Len(ai_news.value) = 0)

FetchNonEmpty == ai_news.kind = "return" /\ ~ai_news.none /\ Len(ai_news.value) > 0

(* The language a request's JSON object asks for: the field, or 'en' without it. *)
AskedLanguage(body) == IF body.language = Absent THEN "en" ELSE body.language

(* C1: in an invocation of any of the three handlers whose fetch step      *)
(* returned None or an empty list, the handler goes from the emptiness     *)
(* test straight to its return with the 400 "no news" response, and has    *)
(* called neither the summarizer nor the translator.                       *)
C1_EmptyFetchEndsNoNews ==
    (FetchEmpty /\ pc # "check_news") =>
        /\ pc \in {"store", "done"}
        /\ response = NoNewsResponse(req.endpoint)
        /\ response.status = 400
        /\ calls.summarizer = 0
        /\ calls.translator = 0

C1_Witness ==
    /\ pc = "store"
    /\ ai_news.kind = "return" /\ ~ai_news.none /\ ai_news.value = <<>>
    /\ response.error = "No AI news articles available to summarize."

(* C2: in an invocation whose fetch step returned a non-empty batch and    *)
(* whose summarize_news call returned the empty string, the handler goes   *)
(* from the emptiness test to its return with the 400 "failed to generate  *)
(* a summary" response, and has not called the translator.                 *)
C2_EmptySummaryEndsSummaryEmpty ==
    (/\ FetchNonEmpty
     /\ calls.summarizer = 1
     /\ failure.stage # "summarize"
     /\ summary = <<>>
     /\ pc \notin {"summarize", "check_summary"}) =>
        /\ pc \in {"store", "done"}
        /\ response = SummaryEmptyResponse(req.endpoint)
        /\ response.status = 400
        /\ calls.translator = 0

C2_Witness ==
    /\ pc = "store"
    /\ FetchNonEmpty
    /\ calls.summarizer = 1
    /\ failure = NoFailure
    /\ summary = <<>>
    /\ response.error = "Failed to generate a summary from today's news articles."

---------------------------------------------------------------------------

(* The articles of a 200 answer ("articles" missing: none). *)
UpstreamArticles(up) == IF up.json.has_articles THEN up.json.articles ELSE <<>>

Is200WithList(up) ==
    up.transport = "ok" /\ up.status_code = HttpOk /\ up.json.valid /\ ~up.json.articles_null

(* C3: for a 200 answer whose "articles" list has n elements (a missing    *)
(* field: n = 0), get_ai_news returns min(n, 10) lines, the renderings of   *)
(* the last min(n, 10) articles in upstream order.                         *)
C3_ReturnsLastTenRendered ==
    (pc = "check_news" /\ Is200WithList(upstream)) =>
        LET arts == UpstreamArticles(upstream)
            n == Len(arts)
            k == Min(n, KeepLast)
        IN  /\ ai_news.kind = "return"
            /\ ~ai_news.none
            /\ Len(ai_news.value) = k
            /\ Len(ai_news.value) <= KeepLast
            /\ \A i \in 1..k :
                  ai_news.value[i] =
                      Str(arts[n - k + i].title) \o ": " \o Str(arts[n - k + i].description)

(* The kept articles of the answer all carry both keys. *)
KeptArticlesComplete(up) ==
    \A i \in 1..Len(LastArticles(UpstreamArticles(up))) :
        MissingKey(LastArticles(UpstreamArticles(up))[i]) = ""

(* C3 restricted to the pages whose kept articles carry both keys, where   *)
(* article['title'] and article['description'] cannot raise.               *)
C3_ReturnsLastTenOfCompletePages ==
    (pc = "check_news" /\ Is200WithList(upstream) /\ KeptArticlesComplete(upstream)) =>
        C3_ReturnsLastTenRendered

(* C4: when the provider answers with a status other than 200,             *)
(* get_ai_news returns None and raises nothing, and the handler returns    *)
(* the very response it returns for a 200 answer with no articles.         *)
C4_ErrorStatusIsNoNews ==
    /\ (pc # "fetch" /\ upstream.transport = "ok" /\ upstream.status_code # HttpOk) =>
          /\ ai_news = ReturnNone
          /\ pc # "check_news" =>
                /\ pc \in {"store", "done"}
                /\ failure = NoFailure
                /\ response = NoNewsResponse(req.endpoint)
    /\ (/\ pc \in {"store", "done"}
        /\ Is200WithList(upstream)
        /\ UpstreamArticles(upstream) = <<>>) =>
          response = NoNewsResponse(req.endpoint)

C4_Witness ==
    /\ pc = "store"
    /\ upstream = StatusResponse(500)
    /\ ai_news.none
    /\ response.status = 400

---------------------------------------------------------------------------

AllWhitespace(s) == \A i \in 1..Len(s) : s[i] \in Whitespace

(* r is s without its leading and trailing whitespace. *)
IsTrimOf(r, s) ==
    \E i \in 0..Len(s) : \E j \in 0..(Len(s) - i) :
        /\ r = SubSeq(s, i + 1, Len(s) - j)
        /\ AllWhitespace(SubSeq(s, 1, i))
        /\ AllWhitespace(SubSeq(s, Len(s) - j + 1, Len(s)))
        /\ r # <<>> => (r[1] \notin Whitespace /\ r[Len(r)] \notin Whitespace)

(* C5: while summarize_news consumes the stream its accumulator is the     *)
(* concatenation, in arrival order, of the fragments delivered so far; at  *)
(* the end of the stream it returns that concatenation without its leading *)
(* and trailing whitespace, the empty string when nothing else is left.    *)
C5_SummaryIsTrimmedConcatenation ==
    /\ pc = "summarize" => summary = Flatten(delivered)
    /\ pc = "check_summary" =>
          /\ IsTrimOf(summary, Flatten(delivered))
          /\ AllWhitespace(Flatten(delivered)) => summary = <<>>

C5_Witness ==
    /\ pc = "check_summary"
    /\ delivered = << <<"a", " ">>, <<"b", " ">> >>
    /\ summary = <<"a", " ", "b">>

---------------------------------------------------------------------------

(* C6, as claimed: a failure of the translator leaves the handler uncaught, *)
(* so the caller gets none of the handler's classified error responses.     *)
C6_TranslateFailurePropagates ==
    (Returned /\ failure.stage = "translate") => response = UnhandledResponse

(* C6, amended: translate() is called inside the handler's try block, so a *)
(* failure of the translator is caught and classified like any other: 400  *)
(* "Bad Request" for a KeyError or a ValueError, 500 "Internal Server      *)
(* Error" for anything else, with the exception's message as detail.       *)
C6_TranslateFailureIsClassified ==
    (Returned /\ failure.stage = "translate") =>
        /\ response.mimetype = "application/json"
        /\ response.detail = failure.msg
        /\ response.status = (IF failure.type \in {"KeyError", "ValueError"} THEN 400 ELSE 500)
        /\ response.error =
              (CASE failure.type = "KeyError" -> "Bad Request: Missing or invalid key - "
                 [] failure.type = "ValueError" -> "Bad Request: Invalid data format - "
                 [] OTHER -> "Internal Server Error: ")

C6_Witness ==
    /\ pc = "store"
    /\ failure.stage = "translate"
    /\ failure.type = "TranslationError"
    /\ response.status = 500

---------------------------------------------------------------------------

(* The class of a response: its status and the error it names. *)
OutcomeClass(r) == <<r.status, r.error>>

(* The classes in which the handlers report a failed call to the news or   *)
(* the inference provider (no connection, an answer that does not decode). *)
UpstreamFailureClasses ==
    {OutcomeClass(HandleException(get_ai_news(up))) :
        up \in {u \in ServiceUpstream : get_ai_news(u).kind = "raise"}}
    \cup {OutcomeClass(HandleException(Raise(t, "inference"))) : t \in InferenceFailures}

IsBadRequest(r) ==
    r.status = 400 /\ r.error \in {"Bad Request: Missing or invalid key - ",
                                    "Bad Request: Invalid data format - "}

(* C7, as claimed: a request whose body is missing, is not JSON or is not  *)
(* an object is answered in a class in which no failure of an upstream     *)
(* dependency is answered, and no upstream failure is answered as a bad    *)
(* request.                                                                *)
C7_InputErrorsApartFromUpstreamFailures ==
    /\ (Returned /\ failure.stage = "parse") =>
          OutcomeClass(response) \notin UpstreamFailureClasses
    /\ (Returned /\ failure.stage \in {"fetch", "summarize"}) => ~IsBadRequest(response)

---------------------------------------------------------------------------

---------------------------------------------------------------------------

SummarizedNonEmpty ==
    /\ Returned
    /\ FetchNonEmpty
    /\ calls.summarizer = 1
    /\ summary # <<>>

ExpectedTranslation ==
    IF AskedLanguage(req.body) = DefaultLanguage THEN summary
    ELSE Translated(summary, AskedLanguage(req.body))

(* C9, as claimed: whenever the fetch step returned a non-empty batch and  *)
(* the summarizer a non-empty summary S, the invocation ends with the 200  *)
(* response whose body is S for the default language and the translator's  *)
(* output for (S, language) otherwise.                                     *)
C9_NonEmptySummaryEndsDone ==
    SummarizedNonEmpty =>
        /\ response = TextResponse(ExpectedTranslation)
        /\ calls.translate_args = <<summary, AskedLanguage(req.body)>>

(* C9, amended: the same, provided the translator does not fail; when it   *)
(* fails the invocation ends with an error response instead of Done.       *)
C9_NonEmptySummaryEndsDoneUnlessTranslatorFails ==
    /\ (SummarizedNonEmpty /\ failure.stage # "translate") =>
          /\ response = TextResponse(ExpectedTranslation)
          /\ calls.translator = 1
          /\ calls.translate_args = <<summary, AskedLanguage(req.body)>>
    /\ (SummarizedNonEmpty /\ failure.stage = "translate") =>
          /\ response.status # HttpOk
          /\ AskedLanguage(req.body) # DefaultLanguage

C9_Witness ==
    /\ pc = "store"
    /\ FetchNonEmpty
    /\ req.body.language = "fr"
    /\ summary = <<"a">>
    /\ response = TextResponse(<<"[fr]", "a">>)

---------------------------------------------------------------------------

(* C10, as claimed, for the successful responses: a 200 response served    *)
(* from the cache was computed, less than the timeout ago, by the same     *)
(* route for the same language code and the same start date.               *)
C10_CachedResponseMatchesRequest ==
    (pc = "done" /\ served /\ response.status = HttpOk /\ req.body.kind = "object") =>
        LET entry == cache[CacheKey(req)]
        IN  /\ entry.for_endpoint = req.endpoint
            /\ entry.expires - CacheTimeout <= now /\ now < entry.expires
            /\ AskedLanguage(entry.for_body) = AskedLanguage(req.body)
            /\ entry.for_date = StartDate(now, req.endpoint)

---------------------------------------------------------------------------

(* The place of a position in the handler's text. *)
StageRank(p) ==
    CASE p = "parse" -> 1
      [] p = "fetch" -> 2
      [] p = "check_news" -> 3
      [] p = "summarize" -> 4
      [] p = "check_summary" -> 5
      [] p = "translate" -> 6
      [] OTHER -> 7

(* What has been called, and with what result, at each position. *)
StagesInOrder ==
    /\ calls.news <= 1 /\ calls.summarizer <= 1 /\ calls.translator <= 1
    /\ calls.news = (IF StageRank(pc) >= 3 /\ failure.stage # "parse" THEN 1 ELSE 0)
    /\ calls.news = 1 => (language # "" /\ date = StartDate(now, req.endpoint))
    /\ calls.summarizer = 1 <=> (StageRank(pc) >= 4 /\ FetchNonEmpty)
    /\ calls.summarizer = 1 => (calls.news = 1 /\ failure.stage \notin {"parse", "fetch"})
    /\ calls.translator = 1 =>
          /\ StageRank(pc) = 7
          /\ calls.summarizer = 1
          /\ summary # <<>>
          /\ failure.stage \in {"none", "translate"}
    /\ pc = "translate" => (calls.summarizer = 1 /\ summary # <<>> /\ failure = NoFailure)

(* The terminal outcome of a returned invocation: exactly one. *)
TerminalOutcomes ==
    {r \in {"NoNewsFound", "SummaryEmpty", "Error", "Done"} :
        CASE r = "NoNewsFound" -> response = NoNewsResponse(req.endpoint)
          [] r = "SummaryEmpty" -> response = SummaryEmptyResponse(req.endpoint)
          [] r = "Error" -> failure # NoFailure /\ response.status \in {400, 500}
                            /\ response.detail = failure.msg
          [] r = "Done" -> response.status = HttpOk}

(* C11: in one invocation the positions are passed in the order of the     *)
(* handler's text (window, fetch, summarize, translate) and never again;   *)
(* the news provider, the inference provider and the translator are each   *)
(* called at most once; the summarizer is entered only after a non-empty   *)
(* batch, the translator only after a non-empty summary; an invocation     *)
(* that has not returned can take a step, and one that has returned has    *)
(* exactly one outcome.                                                    *)
C11_StagesOnceAndInOrder ==
    /\ [](StagesInOrder
          /\ (pc # "store" => ENABLED NextPipeline)
          /\ (pc = "store" => Cardinality(TerminalOutcomes) = 1))
    /\ [][StageRank(pc') > StageRank(pc) \/ (pc = "summarize" /\ pc' = "summarize")]_vars

C11_Witness ==
    /\ pc = "store"
    /\ calls.news = 1 /\ calls.summarizer = 1 /\ calls.translator = 1
    /\ Len(ai_news.value) = KeepLast
    /\ language = "fr"
    /\ response.status = HttpOk

---------------------------------------------------------------------------

(* C12: on a 200 answer, every kept article is rendered as                 *)
(* "<title>: <description>", also one whose title or description is null   *)
(* or absent: get_ai_news returns the batch, and the invocation does not   *)
(* end in an error response on account of the fetch.                       *)
C12_DefectiveArticlesAreRendered ==
    (pc # "fetch" /\ Is200WithList(upstream)) =>
        /\ ai_news.kind = "return"
        /\ ~ai_news.none
        /\ Len(ai_news.value) = Min(Len(UpstreamArticles(upstream)), KeepLast)
        /\ failure.stage # "fetch"

(* C12 for null fields alone: a kept article whose title or description is *)
(* null is rendered with the text "None" in its place.                     *)
C12_NullFieldsAreRendered ==
    (pc = "check_news" /\ Is200WithList(upstream) /\ KeptArticlesComplete(upstream)) =>
        /\ ai_news.kind = "return"
        /\ \A i \in 1..Len(ai_news.value) :
              LET a == LastArticles(UpstreamArticles(upstream))[i]
              IN  ai_news.value[i] =
                      (IF a.title = None THEN "None" ELSE a.title) \o ": "
                      \o (IF a.description = None THEN "None" ELSE a.description)

=============================================================================
